---- MODULE Spec2Model ----
\* A model of src/render_octahedra.py: the module-level device and tracer, and
\* render(snapshot) as the sequence of its statements.  One action per statement
\* of render; `pc` is the statement about to run, `frame` the local variables of
\* the call in progress (a Python frame: a name is in DOMAIN frame once it has
\* been assigned).
\*
\* Units.  Lengths of the simulation box are kept in tenths (box length 0.1 is
\* 1, 100 is 1000), the camera height in hundredths (1.4*L + 1 is 14*l + 100
\* for L = l/10), colours, roughness and radii in hundredths, the light
\* half-angle as a fraction of pi.
EXTENDS Integers, Sequences, FiniteSets, TLC

\* ------------------------------------------------------------------ bounds

\* Largest particle count, and largest length of a snapshot's arrays.
MaxN == 2

\* Largest number of scenes created over a run (calls that reach line 33).
MaxCalls == 2

\* --------------------------------------------------------------- inputs

\* Box lengths L, in tenths: 0.1, 1, 10, 100.
BoxLengths == {1, 10, 100, 1000}

\* Values a particle's position and orientation may take (distinct tokens).
PositionValues == {"p0", "p1"}

OrientationValues == {"q0", "q1"}

\* Marks an instance field the backend allocated and nobody has written yet.
Unset == "unset"

Arrays(V) == UNION {[1..n -> V] : n \in 0..MaxN}

\* What render reads of a snapshot: particles.N, particles.position,
\* particles.orientation, configuration.box.  The arrays are not tied to N:
\* render does not check them.
Snapshots ==
    [N : 0..MaxN,
     position : Arrays(PositionValues),
     orientation : Arrays(OrientationValues),
     box : {<<l, l, l>> : l \in BoxLengths}]

WellFormed(s) == Len(s.position) = s.N /\ Len(s.orientation) = s.N

\* Version strings, as their dot-separated release numbers.
VersionStrings ==
    {<<0, 12, 0>>, <<0, 13>>, <<0, 13, 0>>, <<0, 13, 1>>, <<0, 14, 0>>,
     <<1, 0, 0>>}

\* The imported fresnel module: it has the attribute `version` or it has not.
FresnelModules ==
    {[name |-> "fresnel"]}
        \cup {[name |-> "fresnel", version |-> v] : v \in VersionStrings}

\* ------------------------------------------------------------ constants

\* fresnel.tracer.Path(device=device, w=300, h=300)
TracerW == 300

TracerH == 300

\* tracer.sample(scene, samples=500)
SamplesPerPixel == 500

\* ---------------------------------------------------------------- state

VARIABLES
    fresnel,     \* the backend module as imported (its version attribute)
    device,      \* module-level device
    tracer,      \* module-level tracer
    created,     \* how many devices and tracers were ever constructed
    sceneIds,    \* identities of the scenes ever constructed
    reachedScene,\* how many calls have run the scene statement (line 33)
    pc,          \* statement of render about to run, or idle/returned/raised
    frame,       \* local variables of the call in progress
    steps,       \* statements the current call has run, in order
    warned,      \* warnings the current call has emitted
    failure,     \* the error a statement of the current call ended with
    error,       \* the error the call raised to its caller
    result       \* the value the call returned to its caller

vars ==
    <<fresnel, device, tracer, created, sceneIds, reachedScene, pc, frame,
      steps, warned, failure, error, result>>

\* No local variables: outside a call, and after the frame is popped.
NoFrame == [x \in {} |-> TRUE]

\* No error / no value: a record with no fields.
None == [x \in {} |-> TRUE]

Has(f, name) == name \in DOMAIN f

\* ------------------------------------------------------ version numbers

RECURSIVE StripTrailingZeros(_)
\* packaging.version compares releases with their trailing zeros dropped:
\* 0.13.0 and 0.13 are the same version.
StripTrailingZeros(r) ==
    IF r = <<>> THEN <<>>
    ELSE IF r[Len(r)] = 0 THEN StripTrailingZeros(SubSeq(r, 1, Len(r) - 1))
    ELSE r

\* packaging.version.parse
parse(v) == StripTrailingZeros(v)

RECURSIVE TupleLess(_, _)
\* Python's order on tuples: by the first differing element, a proper prefix
\* first.
TupleLess(a, b) ==
    IF b = <<>> THEN FALSE
    ELSE IF a = <<>> THEN TRUE
    ELSE IF a[1] # b[1] THEN a[1] < b[1]
    ELSE TupleLess(Tail(a), Tail(b))

FRESNEL_MIN_VERSION == parse(<<0, 13, 0>>)

FRESNEL_MAX_VERSION == parse(<<0, 14, 0>>)

\* The condition of the if statement at lines 16-19, evaluated left to right
\* with `or` short-circuiting: the version is read only when it exists.
VersionUnsupported(m) ==
    \/ ~Has(m, "version")
    \/ TupleLess(parse(m.version), FRESNEL_MIN_VERSION)
    \/ ~TupleLess(parse(m.version), FRESNEL_MAX_VERSION)

\* ------------------------------------------------------- initial state

\* The state once the module is imported: lines 8-9 have run.
Init ==
    /\ fresnel \in FresnelModules
    /\ device = [id |-> 1]
    /\ tracer = [device |-> 1, w |-> TracerW, h |-> TracerH]
    /\ created = [devices |-> 1, tracers |-> 1]
    /\ sceneIds = {}
    /\ reachedScene = 0
    /\ pc = "idle"
    /\ frame = NoFrame
    /\ steps = <<>>
    /\ warned = 0
    /\ failure = None
    /\ error = None
    /\ result = None

\* ------------------------------------------------------------ backend

\* The octahedron of lines 23-30, in units of 0.5.
vertices ==
    <<<<-1, 0, 0>>, <<1, 0, 0>>, <<0, -1, 0>>, <<0, 1, 0>>, <<0, 0, -1>>,
      <<0, 0, 1>>>>

\* fresnel.util.convex_polyhedron_from_vertices: the hull of the vertices.
convex_polyhedron_from_vertices(vs) == [hull_of |-> vs]

\* fresnel.color.linear: the sRGB colour converted to linear space.
linear(c) == [linear_of |-> c]

\* fresnel.material.Material(color, roughness)
Material(color, roughness) == [color |-> color, roughness |-> roughness]

\* A scene that shares one object (identity 1) across calls: what the scene
\* statement would build if the scene were kept from one call to the next.
\* The geometry an earlier call attached is still attached.
SceneShared(dev) ==
    [id |-> 1, device |-> dev.id,
     geometry |-> IF sceneIds = {} THEN <<>> ELSE <<[kind |-> "stale"]>>,
     lights |-> <<>>, camera |-> [kind |-> "auto"],
     background_color |-> <<0, 0, 0>>]

\* A scene built on a device of its own instead of the module's device.
SceneOnOwnDevice(dev) ==
    [id |-> Cardinality(sceneIds) + 1, device |-> dev.id + 1,
     geometry |-> <<>>, lights |-> <<>>, camera |-> [kind |-> "auto"],
     background_color |-> <<0, 0, 0>>]

\* fresnel.Scene(device): a new object, with a new identity, on the device
\* given, holding no geometry, and not yet given lights, camera or background.
Scene(dev) ==
    [id |-> Cardinality(sceneIds) + 1, device |-> dev.id,
     geometry |-> <<>>, lights |-> <<>>, camera |-> [kind |-> "auto"],
     background_color |-> <<0, 0, 0>>]

\* fresnel.geometry.ConvexPolyhedron(scene, poly_info, N=n): the scene with a
\* new geometry of n instances attached; the instances' positions and
\* orientations are allocated and not yet written.
ConvexPolyhedron(sc, poly, n) ==
    [sc EXCEPT !.geometry =
        Append(@, [kind |-> "ConvexPolyhedron", poly |-> poly, N |-> n,
                   position |-> [i \in 1..n |-> Unset],
                   orientation |-> [i \in 1..n |-> Unset],
                   material |-> [kind |-> "default"],
                   outline_width |-> 0])]

\* fresnel.geometry.Box(scene, box, box_radius=.02): the scene with the box
\* outline attached.
Box(sc, box, radius) ==
    [sc EXCEPT !.geometry =
        Append(@, [kind |-> "Box", box |-> box, box_radius |-> radius])]

\* Whether `dst[:] = src` is accepted: the arrays have one length, or src has
\* a single row, which is then repeated (array broadcasting).
CanAssign(dst, src) == Len(src) = Len(dst) \/ Len(src) = 1

\* An assignment that fills the instances in reverse order.
AssignArrayReversed(dst, src) ==
    [i \in 1..Len(dst) |->
        IF Len(src) = Len(dst) THEN src[Len(dst) + 1 - i] ELSE src[1]]

\* `dst[:] = src` where it is accepted: row i of dst becomes row i of src.
AssignArray(dst, src) ==
    [i \in 1..Len(dst) |-> IF Len(src) = Len(dst) THEN src[i] ELSE src[1]]

\* fresnel.light.Light(direction, color, theta); theta as a fraction of pi.
Light(direction, color, theta) ==
    [direction |-> direction, color |-> color, theta |-> theta]

\* fresnel.camera.Orthographic(position, look_at, up, height)
Orthographic(position, look_at, up, height) ==
    [kind |-> "Orthographic", position |-> position, look_at |-> look_at,
     up |-> up, height |-> height]

\* tracer.sample(scene, samples=n): the image of the scene at the tracer's
\* size with n samples per pixel.
tracer_sample(tr, sc, n) ==
    [w |-> tr.w, h |-> tr.h, samples |-> n, scene |-> sc]

\* IPython.display.Image(out._repr_png_()): the PNG encoding of the output.
Image(out) == [format |-> "png", of |-> out]

\* ---------------------------------------------------- control of a call

\* The statements of render in a different order: the scene is sampled before
\* its background colour is set.
StepAfterSampleEarly(s) ==
    CASE s = "version_check" -> "box_length"
      [] s = "box_length" -> "poly_info"
      [] s = "poly_info" -> "scene"
      [] s = "scene" -> "geometry"
      [] s = "geometry" -> "material"
      [] s = "material" -> "position"
      [] s = "position" -> "orientation"
      [] s = "orientation" -> "outline_width"
      [] s = "outline_width" -> "box"
      [] s = "box" -> "lights"
      [] s = "lights" -> "camera"
      [] s = "camera" -> "sample"
      [] s = "sample" -> "background_color"
      [] s = "background_color" -> "wrap"
      [] s = "wrap" -> "returned"

\* The statement that follows statement s when s ends normally: render is a
\* straight line of statements, lines 16 to 61, with no loop and no branch
\* but the if of the version check.
StepAfter(s) ==
    CASE s = "version_check" -> "box_length"
      [] s = "box_length" -> "poly_info"
      [] s = "poly_info" -> "scene"
      [] s = "scene" -> "geometry"
      [] s = "geometry" -> "material"
      [] s = "material" -> "position"
      [] s = "position" -> "orientation"
      [] s = "orientation" -> "outline_width"
      [] s = "outline_width" -> "box"
      [] s = "box" -> "lights"
      [] s = "lights" -> "camera"
      [] s = "camera" -> "background_color"
      [] s = "background_color" -> "sample"
      [] s = "sample" -> "wrap"
      [] s = "wrap" -> "returned"

\* An error that is caught where it happens: the call goes on with the next
\* statement.
CatchAndContinue(at, kind) ==
    /\ pc' = StepAfter(at)
    /\ UNCHANGED <<error, frame, result>>

\* An error raised by statement `at`: render has no try, so the error leaves
\* the call at once and nothing is returned.  The frame stays reachable from
\* the error's traceback until the caller drops the error.
Raise(at, kind) ==
    /\ pc' = "raised"
    /\ error' = [at |-> at, kind |-> kind]
    /\ result' = None
    /\ UNCHANGED frame

\* Statement `at` ends with an error of the given kind.
Fails(at, kind) ==
    /\ steps' = Append(steps, at)
    /\ failure' = [at |-> at, kind |-> kind]
    /\ Raise(at, kind)

\* Statement `at` ends normally.
Runs(at) ==
    /\ steps' = Append(steps, at)
    /\ pc' = StepAfter(at)
    /\ UNCHANGED <<failure, error, result>>

\* What render never touches: the module-level objects.
module == <<fresnel, device, tracer, created>>

\* ------------------------------------------------------------- actions

\* The caller calls render(snapshot).
Call ==
    /\ pc = "idle"
    /\ reachedScene < MaxCalls
    /\ \E snapshot \in Snapshots : frame' = [snapshot |-> snapshot]
    /\ pc' = "version_check"
    /\ steps' = <<>>
    /\ warned' = 0
    /\ UNCHANGED <<module, sceneIds, reachedScene, failure, error, result>>

\* Lines 16-21.  When the condition holds the warning's message is formatted
\* first, and the message reads fresnel.version.version: without the attribute
\* that read raises AttributeError and no warning is emitted.  `warned` counts
\* the calls of warnings.warn; whether the process's warning filters show a
\* repeated warning is not part of render.
VersionCheck ==
    /\ pc = "version_check"
    /\ IF VersionUnsupported(fresnel)
       THEN IF Has(fresnel, "version")
            THEN /\ warned' = warned + 1
                 /\ Runs("version_check")
                 /\ UNCHANGED frame
            ELSE /\ Fails("version_check", "AttributeError")
                 /\ UNCHANGED warned
       ELSE /\ Runs("version_check")
            /\ UNCHANGED <<warned, frame>>
    /\ UNCHANGED <<module, sceneIds, reachedScene>>

\* Line 22: L = snapshot.configuration.box[0]
BoxLength ==
    /\ pc = "box_length"
    /\ frame' = frame @@ ("L" :> frame.snapshot.box[1])
    /\ Runs("box_length")
    /\ UNCHANGED <<module, sceneIds, reachedScene, warned>>

\* Lines 23-31: poly_info = convex_polyhedron_from_vertices(vertices)
PolyInfo ==
    /\ pc = "poly_info"
    /\ \/ /\ frame' = frame @@ ("poly_info" :> convex_polyhedron_from_vertices(vertices))
          /\ Runs("poly_info")
       \/ Fails("poly_info", "BackendError")
    /\ UNCHANGED <<module, sceneIds, reachedScene, warned>>

\* Line 33: scene = fresnel.Scene(device)
NewScene ==
    /\ pc = "scene"
    /\ \/ /\ frame' = frame @@ ("scene" :> Scene(device))
          /\ sceneIds' = sceneIds \cup {Scene(device).id}
          /\ reachedScene' = reachedScene + 1
          /\ Runs("scene")
       \/ /\ Fails("scene", "BackendError")
          /\ UNCHANGED <<sceneIds, reachedScene>>
    /\ UNCHANGED <<module, warned>>

\* The geometry the local name `geometry` refers to.
TheGeometry == frame.scene.geometry[frame.geometry]

\* Lines 34-36: geometry = ConvexPolyhedron(scene, poly_info, N=snapshot.particles.N)
\* The local name refers to the geometry just attached.
Geometry ==
    /\ pc = "geometry"
    /\ \/ LET sc == ConvexPolyhedron(frame.scene, frame.poly_info, frame.snapshot.N)
          IN  /\ frame' = [frame EXCEPT !.scene = sc] @@ ("geometry" :> Len(sc.geometry))
              /\ Runs("geometry")
       \/ Fails("geometry", "BackendError")
    /\ UNCHANGED <<module, sceneIds, reachedScene, warned>>

\* Lines 37-39: geometry.material = Material(color=linear([0.01, 0.74, 0.26]),
\* roughness=0.5)
SetMaterial ==
    /\ pc = "material"
    /\ \/ /\ frame' = [frame EXCEPT !.scene.geometry[frame.geometry].material =
                          Material(linear(<<1, 74, 26>>), 50)]
          /\ Runs("material")
       \/ Fails("material", "BackendError")
    /\ UNCHANGED <<module, sceneIds, reachedScene, warned>>

\* Line 40: geometry.position[:] = snapshot.particles.position[:]
SetPosition ==
    /\ pc = "position"
    /\ IF CanAssign(TheGeometry.position, frame.snapshot.position)
       THEN /\ frame' = [frame EXCEPT !.scene.geometry[frame.geometry].position =
                            AssignArray(@, frame.snapshot.position)]
            /\ Runs("position")
       ELSE Fails("position", "ValueError")
    /\ UNCHANGED <<module, sceneIds, reachedScene, warned>>

\* Line 41: geometry.orientation[:] = snapshot.particles.orientation[:]
SetOrientation ==
    /\ pc = "orientation"
    /\ IF CanAssign(TheGeometry.orientation, frame.snapshot.orientation)
       THEN /\ frame' = [frame EXCEPT !.scene.geometry[frame.geometry].orientation =
                            AssignArray(@, frame.snapshot.orientation)]
            /\ Runs("orientation")
       ELSE Fails("orientation", "ValueError")
    /\ UNCHANGED <<module, sceneIds, reachedScene, warned>>

\* Line 42: geometry.outline_width = 0.01
SetOutlineWidth ==
    /\ pc = "outline_width"
    /\ frame' = [frame EXCEPT !.scene.geometry[frame.geometry].outline_width = 1]
    /\ Runs("outline_width")
    /\ UNCHANGED <<module, sceneIds, reachedScene, warned>>

\* Lines 43-46: box = Box(scene, snapshot.configuration.box, box_radius=.02)
AddBox ==
    /\ pc = "box"
    /\ \/ LET sc == Box(frame.scene, frame.snapshot.box, 2)
          IN  /\ frame' = [frame EXCEPT !.scene = sc] @@ ("box" :> Len(sc.geometry))
              /\ Runs("box")
       \/ Fails("box", "BackendError")
    /\ UNCHANGED <<module, sceneIds, reachedScene, warned>>

\* Lines 48-55: scene.lights = [Light(...), Light(...)]
SetLights ==
    /\ pc = "lights"
    /\ \/ /\ frame' = [frame EXCEPT !.scene.lights =
                          <<Light(<<0, 0, 1>>, <<50, 50, 50>>, <<1, 1>>),
                            Light(<<1, 1, 1>>, <<110, 110, 110>>, <<1, 3>>)>>]
          /\ Runs("lights")
       \/ Fails("lights", "BackendError")
    /\ UNCHANGED <<module, sceneIds, reachedScene, warned>>

\* Lines 56-59: scene.camera = Orthographic(position=(L*2, L, L*2),
\* look_at=(0,0,0), up=(0,1,0), height=L*1.4 + 1); the height in hundredths.
SetCamera ==
    /\ pc = "camera"
    /\ \/ /\ frame' = [frame EXCEPT !.scene.camera =
                          Orthographic(<<frame.L * 2, frame.L, frame.L * 2>>,
                                       <<0, 0, 0>>, <<0, 1, 0>>,
                                       frame.L * 14 + 100)]
          /\ Runs("camera")
       \/ Fails("camera", "BackendError")
    /\ UNCHANGED <<module, sceneIds, reachedScene, warned>>

\* Line 60: scene.background_color = (1, 1, 1)
SetBackground ==
    /\ pc = "background_color"
    /\ frame' = [frame EXCEPT !.scene.background_color = <<1, 1, 1>>]
    /\ Runs("background_color")
    /\ UNCHANGED <<module, sceneIds, reachedScene, warned>>

\* A sampling statement that first resizes the tracer to the box.
SampleResized ==
    /\ pc = "sample"
    /\ tracer' = [tracer EXCEPT !.w = frame.L, !.h = frame.L]
    /\ frame' = frame @@ ("out" :> tracer_sample(tracer', frame.scene, SamplesPerPixel))
    /\ Runs("sample")
    /\ UNCHANGED <<fresnel, device, created, sceneIds, reachedScene, warned>>

\* Line 61, the inner call: tracer.sample(scene, samples=500)
Sample ==
    /\ pc = "sample"
    /\ \/ /\ frame' = frame @@ ("out" :> tracer_sample(tracer, frame.scene, SamplesPerPixel))
          /\ Runs("sample")
       \/ Fails("sample", "BackendError")
    /\ UNCHANGED <<module, sceneIds, reachedScene, warned>>

\* Line 61, the outer calls and the return: the output is encoded and wrapped;
\* the value is handed to the caller.
Wrap ==
    /\ pc = "wrap"
    /\ steps' = Append(steps, "wrap")
    /\ pc' = StepAfter("wrap")
    /\ result' = Image(frame.out)
    /\ UNCHANGED <<module, sceneIds, reachedScene, warned, frame, failure, error>>

\* The caller goes on after the call: the frame is gone, and with it the scene
\* and all it holds; the caller drops the image or the error.
Finish ==
    /\ pc \in {"returned", "raised"}
    /\ pc' = "idle"
    /\ frame' = NoFrame
    /\ steps' = <<>>
    /\ warned' = 0
    /\ failure' = None
    /\ error' = None
    /\ result' = None
    /\ UNCHANGED <<module, sceneIds, reachedScene>>

Next ==
    \/ Call
    \/ VersionCheck
    \/ BoxLength
    \/ PolyInfo
    \/ NewScene
    \/ Geometry
    \/ SetMaterial
    \/ SetPosition
    \/ SetOrientation
    \/ SetOutlineWidth
    \/ AddBox
    \/ SetLights
    \/ SetCamera
    \/ SetBackground
    \/ Sample
    \/ Wrap
    \/ Finish

Spec == Init /\ [][Next]_vars

\* ------------------------------------------------- reading a call's state

\* Statement s has been run by the current call (it may have failed).
Ran(s) == \E i \in 1..Len(steps) : steps[i] = s

\* Statement s has been run by the current call and ended normally.
Done(s) == Ran(s) /\ (failure = None \/ failure.at # s)

\* How many times the current call has run statement s.
Times(s) == Cardinality({i \in 1..Len(steps) : steps[i] = s})

\* render's statements in the order of the source text.
ProgramOrder ==
    <<"version_check", "box_length", "poly_info", "scene", "geometry",
      "material", "position", "orientation", "outline_width", "box",
      "lights", "camera", "background_color", "sample", "wrap">>

IsPrefix(a, b) == Len(a) <= Len(b) /\ \A i \in 1..Len(a) : a[i] = b[i]

\* A version as one number, missing release parts counting as 0.
VersionNumber(v) ==
    (IF Len(v) >= 1 THEN v[1] ELSE 0) * 10000
        + (IF Len(v) >= 2 THEN v[2] ELSE 0) * 100
        + (IF Len(v) >= 3 THEN v[3] ELSE 0)

\* The backend has no version identifier, or its version is outside
\* [0.13.0, 0.14.0).
OutsideSupportedRange(m) ==
    \/ ~Has(m, "version")
    \/ VersionNumber(m.version) < 1300
    \/ VersionNumber(m.version) >= 1400

\* ------------------------------------------------------------- claims

\* C1: the version check never raises: whatever the backend's version state
\* (absent, below 0.13.0, at or above 0.14.0, in range) the call gets past the
\* check without an error, and in the three unsupported states it has emitted
\* exactly one warning once the check is over.
C1_VersionCheckNeverRaises ==
    /\ failure # None => failure.at # "version_check"
    /\ (Ran("version_check") /\ OutsideSupportedRange(fresnel)) => warned = 1

\* C2: render emits the unsupported-version warning if and only if the backend
\* exposes no version or its version v does not satisfy 0.13.0 <= v < 0.14.0.
C2_WarnsIffUnsupported ==
    Ran("version_check") => (warned >= 1 <=> OutsideSupportedRange(fresnel))

\* C2, for backends that expose a version: the warning is emitted exactly when
\* the version is outside [0.13.0, 0.14.0).
WarnsIffOutOfRangeWhenVersioned ==
    (Ran("version_check") /\ Has(fresnel, "version")) =>
        /\ failure = None \/ failure.at # "version_check"
        /\ warned = (IF OutsideSupportedRange(fresnel) THEN 1 ELSE 0)

\* The scene the current call is assembling, without its identity: what the
\* renderer draws.
Content(sc) ==
    [geometry |-> sc.geometry, lights |-> sc.lights, camera |-> sc.camera,
     background_color |-> sc.background_color]

\* The instances of a snapshot's array as n instances receive them.
Rows(src, n) == [i \in 1..n |-> IF Len(src) = n THEN src[i] ELSE src[1]]

\* The scene of lines 33-60 written as one expression of the snapshot alone.
SceneOf(s) ==
    [geometry |->
        <<[kind |-> "ConvexPolyhedron",
           poly |-> [hull_of |-> vertices],
           N |-> s.N,
           position |-> Rows(s.position, s.N),
           orientation |-> Rows(s.orientation, s.N),
           material |-> [color |-> [linear_of |-> <<1, 74, 26>>], roughness |-> 50],
           outline_width |-> 1],
          [kind |-> "Box", box |-> s.box, box_radius |-> 2]>>,
     lights |->
        <<[direction |-> <<0, 0, 1>>, color |-> <<50, 50, 50>>, theta |-> <<1, 1>>],
          [direction |-> <<1, 1, 1>>, color |-> <<110, 110, 110>>, theta |-> <<1, 3>>]>>,
     camera |->
        [kind |-> "Orthographic",
         position |-> <<2 * s.box[1], s.box[1], 2 * s.box[1]>>,
         look_at |-> <<0, 0, 0>>, up |-> <<0, 1, 0>>,
         height |-> 14 * s.box[1] + 100],
     background_color |-> <<1, 1, 1>>]

\* C3: for a snapshot with N particles (arrays of N rows), once the scene is
\* assembled the geometry holds exactly N instances and instance i has the
\* position and the orientation of particle i, for every i.
C3_IndexCorrespondence ==
    (Done("orientation") /\ WellFormed(frame.snapshot)) =>
        /\ TheGeometry.N = frame.snapshot.N
        /\ Len(TheGeometry.position) = frame.snapshot.N
        /\ Len(TheGeometry.orientation) = frame.snapshot.N
        /\ \A i \in 1..frame.snapshot.N :
            /\ TheGeometry.position[i] = frame.snapshot.position[i]
            /\ TheGeometry.orientation[i] = frame.snapshot.orientation[i]
        /\ Cardinality({k \in 1..Len(frame.scene.geometry) :
                          frame.scene.geometry[k].kind = "ConvexPolyhedron"}) = 1

\* C3's case: a scene is sampled for two particles that differ in position and
\* in orientation.
C3_Witness ==
    /\ pc = "wrap"
    /\ WellFormed(frame.snapshot)
    /\ frame.snapshot.N = 2
    /\ frame.snapshot.position[1] # frame.snapshot.position[2]
    /\ frame.snapshot.orientation[1] # frame.snapshot.orientation[2]
    /\ TheGeometry.position = frame.snapshot.position

\* C5: after any sequence of calls the tracer is still 300x300, and every
\* image sampled or returned was sampled at 300x300 with 500 samples per pixel.
C5_OutputShapeFixed ==
    /\ tracer.w = 300 /\ tracer.h = 300
    /\ Has(frame, "out") =>
        frame.out.w = 300 /\ frame.out.h = 300 /\ frame.out.samples = 500
    /\ pc = "returned" =>
        /\ result.format = "png"
        /\ result.of.w = 300 /\ result.of.h = 300 /\ result.of.samples = 500

\* C5's case: a second call, for the largest box and two particles, returns.
C5_Witness ==
    /\ pc = "returned"
    /\ reachedScene = 2
    /\ frame.snapshot.N = 2
    /\ frame.L = 1000
    /\ result.of.w = 300

\* C6: the scene render builds is a function of the snapshot alone: in every
\* call, whatever calls came before, the scene handed to the sampler is the one
\* expression SceneOf of that call's snapshot, so two calls with the same
\* snapshot build the same geometry, box, lights, camera and background.
C6_SceneIsFunctionOfSnapshot ==
    /\ Done("background_color") => Content(frame.scene) = SceneOf(frame.snapshot)
    /\ Has(frame, "out") => Content(frame.out.scene) = SceneOf(frame.snapshot)

\* C6's case: a later call (a scene was built before it) has its scene sampled.
C6_Witness ==
    /\ reachedScene = 2
    /\ Has(frame, "out")
    /\ frame.snapshot.N = 2
    /\ Content(frame.out.scene) = SceneOf(frame.snapshot)

\* ---------------------------------------------- the camera's frame

Abs(x) == IF x < 0 THEN -x ELSE x

RECURSIVE GCD(_, _)
GCD(a, b) == IF b = 0 THEN a ELSE GCD(b, a % b)

Minus(a, b) == <<a[1] - b[1], a[2] - b[2], a[3] - b[3]>>

Cross(a, b) ==
    <<a[2] * b[3] - a[3] * b[2], a[3] * b[1] - a[1] * b[3],
      a[1] * b[2] - a[2] * b[1]>>

Dot(a, b) == a[1] * b[1] + a[2] * b[2] + a[3] * b[3]

AbsSum(a) == Abs(a[1]) + Abs(a[2]) + Abs(a[3])

\* The same direction with the smallest whole components.
Direction(a) ==
    LET g == GCD(GCD(Abs(a[1]), Abs(a[2])), Abs(a[3]))
    IN  <<a[1] \div g, a[2] \div g, a[3] \div g>>

\* The horizontal and the vertical axis of an orthographic camera's image.
ViewDirection(cam) == Direction(Minus(cam.look_at, cam.position))

HorizontalAxis(cam) == Direction(Cross(ViewDirection(cam), cam.up))

VerticalAxis(cam) == Direction(Cross(HorizontalAxis(cam), ViewDirection(cam)))

\* A cube of side s tenths centred on the point the camera looks at spans
\* s * (|a1| + |a2| + |a3|) / |a| along axis a.  It is within a span of `span`
\* hundredths when 10 * s * AbsSum(a) <= span * |a|; both sides are squared,
\* after division by their common divisor.
CubeWithin(axis, s, span) ==
    LET x == 10 * s * AbsSum(axis)
        g == GCD(x, span)
    IN  (x \div g) * (x \div g) <= (span \div g) * (span \div g) * Dot(axis, axis)

\* The box of side L lies inside the camera's image: the image is `height`
\* high and height * w / h wide.
BoxInFrame(cam, l, tr) ==
    /\ CubeWithin(VerticalAxis(cam), l, cam.height)
    /\ CubeWithin(HorizontalAxis(cam), l, (cam.height * tr.w) \div tr.h)

\* C4: for every box length L > 0 (0.1, 1, 10, 100) the camera is orthographic
\* at (2L, L, 2L), looks at the origin with up (0,1,0) and height 1.4*L + 1,
\* and the box of side L centred on the origin lies inside the square image.
C4_BoxFitsInFrame ==
    Done("camera") =>
        /\ frame.scene.camera.kind = "Orthographic"
        /\ frame.scene.camera.position = <<2 * frame.L, frame.L, 2 * frame.L>>
        /\ frame.scene.camera.look_at = <<0, 0, 0>>
        /\ frame.scene.camera.up = <<0, 1, 0>>
        /\ frame.scene.camera.height = 14 * frame.L + 100
        /\ BoxInFrame(frame.scene.camera, frame.L, tracer)

\* C4, without the framing: the camera's parameters are the stated ones.
CameraParameters ==
    Done("camera") =>
        frame.scene.camera =
            [kind |-> "Orthographic",
             position |-> <<2 * frame.L, frame.L, 2 * frame.L>>,
             look_at |-> <<0, 0, 0>>, up |-> <<0, 1, 0>>,
             height |-> 14 * frame.L + 100]

\* C4, for box lengths up to 10: the box is inside the image.
BoxFitsUpToTen ==
    (Done("camera") /\ frame.L <= 100) =>
        BoxInFrame(frame.scene.camera, frame.L, tracer)

\* The scene has all that lines 34-60 give it: one polyhedron geometry with
\* its material, every instance written and the outline width, the box
\* outline, the two lights, the camera and the white background.
Assembled(sc) ==
    /\ \E k \in 1..Len(sc.geometry) :
        LET g == sc.geometry[k]
        IN  /\ g.kind = "ConvexPolyhedron"
            /\ g.material = [color |-> [linear_of |-> <<1, 74, 26>>], roughness |-> 50]
            /\ \A i \in 1..g.N : g.position[i] # Unset /\ g.orientation[i] # Unset
            /\ g.outline_width = 1
    /\ \E k \in 1..Len(sc.geometry) : sc.geometry[k].kind = "Box"
    /\ Len(sc.lights) = 2
    /\ sc.camera.kind = "Orthographic"
    /\ sc.background_color = <<1, 1, 1>>

\* C7: for a snapshot with no particles render raises nothing of its own (an
\* error can only be one a backend call reported), the geometry it builds has
\* no instance, the scene it submits has that empty geometry, the box outline,
\* the two lights, the camera and the white background, the sampler runs once
\* and the sampled image is what is returned.
C7_EmptySnapshotRenders ==
    (Has(frame, "snapshot") /\ frame.snapshot.N = 0 /\ WellFormed(frame.snapshot)) =>
        /\ failure # None => failure.kind = "BackendError"
        /\ Done("geometry") =>
            /\ TheGeometry.N = 0
            /\ TheGeometry.position = <<>>
            /\ TheGeometry.orientation = <<>>
        /\ Has(frame, "out") =>
            /\ Assembled(frame.out.scene)
            /\ Content(frame.out.scene) = SceneOf(frame.snapshot)
            /\ Times("sample") = 1
        /\ pc = "returned" => result = Image(frame.out)

\* C7, for backends that expose a version: the same statement holds.
EmptySnapshotRendersWhenVersioned ==
    Has(fresnel, "version") => C7_EmptySnapshotRenders

\* C8: a statement of render that fails ends the call there with that error:
\* the call is in its raised state with the statement's own error, the failed
\* statement is the last one run, no statement ran twice, nothing is returned
\* and nothing was sampled after it, and the device and the tracer are as the
\* module built them.  Assigning an array of a wrong length (neither N rows
\* nor one row) is such a failure.
C8_FailurePropagates ==
    /\ failure # None =>
        /\ pc = "raised"
        /\ error = failure
        /\ steps[Len(steps)] = failure.at
        /\ \A s \in {steps[i] : i \in 1..Len(steps)} : Times(s) = 1
        /\ result = None
        /\ failure.at # "sample" => ~Has(frame, "out")
        /\ device = [id |-> 1]
        /\ tracer = [device |-> 1, w |-> 300, h |-> 300]
        /\ created = [devices |-> 1, tracers |-> 1]
    /\ pc = "raised" => failure # None
    /\ (Ran("position") /\ Len(frame.snapshot.position) \notin {1, frame.snapshot.N}) =>
        failure = [at |-> "position", kind |-> "ValueError"]
    /\ (Ran("orientation") /\ Len(frame.snapshot.orientation) \notin {1, frame.snapshot.N}) =>
        failure = [at |-> "orientation", kind |-> "ValueError"]

\* C8's case: the sampler fails in a call that had assembled its scene.
C8_Witness ==
    /\ pc = "raised"
    /\ error = [at |-> "sample", kind |-> "BackendError"]
    /\ Assembled(frame.scene)

\* C9: one device and one tracer exist, both made when the module was
\* imported; each call that runs the scene statement makes a new scene on that
\* device, so the scenes made are as many as those calls and are all distinct;
\* the scene a call assembles, samples and returns an image of is the one that
\* call made.
C9_OneDeviceOwnScene ==
    /\ created = [devices |-> 1, tracers |-> 1]
    /\ device.id = 1
    /\ tracer.device = device.id
    /\ sceneIds = 1..reachedScene
    /\ Has(frame, "scene") =>
        /\ frame.scene.id = reachedScene
        /\ frame.scene.device = device.id
    /\ ~Has(frame, "scene") => ~Done("scene")
    /\ Has(frame, "out") => frame.out.scene.id = reachedScene
    /\ pc = "returned" => result.of.scene.id = reachedScene

\* C9's case: the second call to build a scene returns.
C9_Witness ==
    /\ pc = "returned"
    /\ reachedScene = 2
    /\ result.of.scene.id = 2

\* C10: the statements of a call run in the one order of the source, none
\* twice: the version check is over before anything of the scene exists; the
\* scene is sampled only once it is fully assembled; the image is wrapped and
\* returned only after it was sampled.
C10_FixedOrder ==
    /\ IsPrefix(steps, ProgramOrder)
    /\ (Has(frame, "poly_info") \/ Has(frame, "scene") \/ Has(frame, "geometry")) =>
        Done("version_check")
    /\ Ran("sample") => Assembled(frame.scene)
    /\ Has(frame, "out") => Assembled(frame.out.scene)
    /\ pc = "returned" =>
        /\ Done("sample")
        /\ Has(frame, "out")
        /\ result = Image(frame.out)
        /\ steps = ProgramOrder
    /\ result # None => pc = "returned"

\* C10's case: a call that warned about the version runs to its return.
C10_Witness ==
    /\ pc = "returned"
    /\ warned = 1
    /\ steps = ProgramOrder

====
